---------------------------- MODULE Spec2Model ----------------------------
(***************************************************************************)
(* Model of the CosmWasm MCP server tool box (src/src/server.rs).          *)
(*                                                                         *)
(* State: the deployment registry held by CwMcp, and the tool calls that   *)
(* are in flight.  A tool handler has no suspension point in its body, so  *)
(* one handler run is one action; several calls may be dispatched before   *)
(* any of them runs.                                                       *)
(*                                                                         *)
(* Text is modelled structurally:                                          *)
(*   - a JSON payload string is a sequence of lexical tokens;              *)
(*   - a payment amount string is a sequence of characters;                *)
(*   - the text a serializer produces is [json |-> v], the JSON document   *)
(*     denoting v; a literal string s is [str |-> s].                      *)
(***************************************************************************)
EXTENDS Integers, Sequences, FiniteSets, TLC

VARIABLES contracts, inflight

vars == <<contracts, inflight>>

\* Number of tool calls that can be in flight together.
MaxInFlight == 2

Slots == 1..MaxInFlight

-----------------------------------------------------------------------------
(* Option<String> arguments *)

None == [some |-> FALSE, val |-> <<>>]

Some(v) == [some |-> TRUE, val |-> v]

NoneStr == [some |-> FALSE, val |-> ""]

SomeStr(s) == [some |-> TRUE, val |-> s]

-----------------------------------------------------------------------------
(* Deployment registry *)

CONTRACT_MAINNET == "archway1mainnetcontract"

CONTRACT_TESTNET == "archway1testnetcontract"

Networks == {"Mainnet", "Testnet"}

CwContract(n, c, a) == [network |-> n, chain_id |-> c, contract_address |-> a]

\* faulty variant: the second entry copies the network of the first
CwMcp_new_same_network ==
    << CwContract("Mainnet", "archway-1", CONTRACT_MAINNET),
       CwContract("Mainnet", "constantine-3", CONTRACT_TESTNET) >>

CwMcp_new ==
    << CwContract("Mainnet", "archway-1", CONTRACT_MAINNET),
       CwContract("Testnet", "constantine-3", CONTRACT_TESTNET) >>

-----------------------------------------------------------------------------
(* Uint128::from_str: the decimal string of an unsigned 128-bit integer.   *)
(* A Uint128 value is kept as its canonical decimal digits, which is also  *)
(* how it is serialized.                                                   *)

Digits == <<"0", "1", "2", "3", "4", "5", "6", "7", "8", "9">>

IsDigit(c) == \E k \in 1..Len(Digits) : Digits[k] = c

DigitVal(c) == CHOOSE n \in 0..9 : Digits[n + 1] = c

AllDigits(s) == \A k \in 1..Len(s) : IsDigit(s[k])

RECURSIVE StripZeros(_)
StripZeros(s) ==
    IF Len(s) > 1 /\ Head(s) = "0" THEN StripZeros(Tail(s)) ELSE s

\* a <= b, for canonical digit sequences
LeqDigits(a, b) ==
    \/ Len(a) < Len(b)
    \/ /\ Len(a) = Len(b)
       /\ \/ a = b
          \/ \E k \in 1..Len(a) :
                /\ \A j \in 1..(k - 1) : a[j] = b[j]
                /\ DigitVal(a[k]) < DigitVal(b[k])

\* u128::MAX = 2^128 - 1 = 340282366920938463463374607431768211455
U128MaxDigits ==
    << "3","4","0","2","8","2","3","6","6","9","2","0","9","3","8","4","6","3","4","6",
       "3","3","7","4","6","0","7","4","3","1","7","6","8","2","1","1","4","5","5" >>

Uint128Zero == <<"0">>

ParseErr == [ok |-> FALSE, val |-> <<>>]

ParseOk(v) == [ok |-> TRUE, val |-> v]

Uint128_from_str(s) ==
    LET body == IF Len(s) > 0 /\ Head(s) = "+" THEN Tail(s) ELSE s
    IN  IF Len(body) = 0 \/ ~AllDigits(body) THEN ParseErr
        ELSE IF ~LeqDigits(StripZeros(body), U128MaxDigits) THEN ParseErr
        ELSE ParseOk(StripZeros(body))

Uint128_unwrap_or_default(r) == IF r.ok THEN r.val ELSE Uint128Zero

-----------------------------------------------------------------------------
(* Message grammars (cw20_wrap::msg::{QueryMsg, ExecuteMsg}): externally   *)
(* tagged unions.  A variant is a tag and the names of its fields; every   *)
(* field value is a JSON string literal.                                   *)

WS == " "

Variant(t, f) == [tag |-> t, fields |-> f]

QueryMsg ==
    { Variant("\"token_info\"", <<>>),
      Variant("\"balance\"", <<"\"address\"">>) }

ExecuteMsg ==
    { Variant("\"deposit\"", <<>>),
      Variant("\"withdraw\"", <<"\"amount\"">>) }

StrLits == {"\"archway1holder\"", "\"5\""}

\* serde_json skips whitespace between tokens
StripWs(raw) == SelectSeq(raw, LAMBDA t : t # WS)

\* the tokens  "name":"value"  of the fields of a variant, in order
RECURSIVE FieldTokens(_, _)
FieldTokens(names, values) ==
    IF Len(names) = 0 THEN <<>>
    ELSE <<Head(names), ":", Head(values)>>
         \o (IF Len(names) > 1 THEN <<",">> ELSE <<>>)
         \o FieldTokens(Tail(names), Tail(values))

\* the values found in the body of a variant object: every third token
FieldValues(body) ==
    [k \in 1..((Len(body) + 1) \div 4) |-> body[4 * k - 1]]

Typed(t, v) == [tag |-> t, values |-> v]

Matches(t, v) ==
    /\ Len(t) >= 6
    /\ t[1] = "{" /\ t[2] = v.tag /\ t[3] = ":" /\ t[4] = "{"
    /\ t[Len(t) - 1] = "}" /\ t[Len(t)] = "}"
    /\ LET body == SubSeq(t, 5, Len(t) - 2)
           vals == FieldValues(body)
       IN  /\ Len(vals) = Len(v.fields)
           /\ \A k \in 1..Len(vals) : vals[k] \in StrLits
           /\ body = FieldTokens(v.fields, vals)

\* serde_json::from_str::<M>(raw)
from_str(raw, grammar) ==
    LET t == StripWs(raw)
    IN  IF \E v \in grammar : Matches(t, v)
        THEN LET v == CHOOSE w \in grammar : Matches(t, w)
             IN  ParseOk(Typed(v.tag, FieldValues(SubSeq(t, 5, Len(t) - 2))))
        ELSE ParseErr

FieldsOf(grammar, tag) == (CHOOSE v \in grammar : v.tag = tag).fields

\* the canonical JSON encoding of a typed message
Encode(grammar, m) ==
    <<"{", m.tag, ":", "{">> \o FieldTokens(FieldsOf(grammar, m.tag), m.values)
        \o <<"}", "}">>

Binary(bytes) == [base64 |-> bytes]

BinaryDefault == Binary(<<>>)

\* to_json_binary(&m).unwrap_or_default(); encOk: the encoder returned Ok
to_json_binary(grammar, m, encOk) ==
    IF encOk THEN Binary(Encode(grammar, m)) ELSE BinaryDefault

-----------------------------------------------------------------------------
(* Texts and tool results *)

Str(s) == [str |-> s]

JsonText(v) == [json |-> v]

EmptyText == Str("")

\* serde_json::to_string(..).unwrap_or_default(); ok: the serializer returned Ok
to_string_or_default(v, ok) == IF ok THEN JsonText(v) ELSE EmptyText

Success(text) == [kind |-> "success", text |-> text]

Error(text) == [kind |-> "error", text |-> text]

\* the handler unwound out of an unwrap(): no result is returned
Panicked == [kind |-> "panic", text |-> EmptyText]

NoResult == [kind |-> "none", text |-> EmptyText]

\* outcomes of the fallible encoder/serializer calls of one handler run
Serde(b, e, o) == [bin |-> b, env |-> e, out |-> o]

SerdeOk == Serde(TRUE, TRUE, TRUE)

-----------------------------------------------------------------------------
(* The tool handlers, as functions of the call's arguments, of the         *)
(* registry and of the outcomes of the encoder/serializer calls.           *)

Coin(d, a) == [denom |-> d, amount |-> a]

\* faulty variant: the amount string is never parsed
funds_amount_not_parsed(payment, payment_denom) ==
    IF payment.some /\ payment_denom.some
    THEN << Coin(payment_denom.val, Uint128Zero) >>
    ELSE <<>>

\* faulty variant: is_some() || is_some()
funds_either_supplied(payment, payment_denom) ==
    IF payment.some \/ payment_denom.some
    THEN << Coin(payment_denom.val,
                 Uint128_unwrap_or_default(Uint128_from_str(payment.val))) >>
    ELSE <<>>

\* let funds: Vec<Coin> = if payment.is_some() && payment_denom.is_some() ..
funds(payment, payment_denom) ==
    IF payment.some /\ payment_denom.some
    THEN << Coin(payment_denom.val,
                 Uint128_unwrap_or_default(Uint128_from_str(payment.val))) >>
    ELSE <<>>

\* faulty variant: the envelope is addressed to the mainnet deployment
WasmQuerySmart_mainnet_only(contract_addr, msg) ==
    [wasm |-> [smart |-> [contract_addr |-> CONTRACT_MAINNET, msg |-> msg]]]

\* QueryRequest::Wasm(WasmQuery::Smart { contract_addr, msg })
WasmQuerySmart(contract_addr, msg) ==
    [wasm |-> [smart |-> [contract_addr |-> contract_addr, msg |-> msg]]]

\* WasmMsg::Execute { contract_addr, msg, funds }.into()
WasmMsgExecute(contract_addr, msg, fs) ==
    [wasm |-> [execute |-> [contract_addr |-> contract_addr, msg |-> msg,
                            funds |-> fs]]]

ValidatedQuery(query_msg, query_request) ==
    [query_msg |-> query_msg, query_request |-> query_request]

ValidatedExecute(execute_msg, cosmos_msg) ==
    [execute_msg |-> execute_msg, cosmos_msg |-> cosmos_msg]

QUERY_WRAP_ERROR == "Error wrapping QueryMsg as QueryRequest"

EXECUTE_WRAP_ERROR == "Error wrapping ExecuteMsg as CosmosMsg"

list_contract_deployments_result(registry, sd) ==
    Success(to_string_or_default(registry, sd.out))

\* schema_for!(M): the structural description of a grammar
schema_for(title, grammar) == [title |-> title, oneOf |-> grammar]

list_query_entry_points_result(sd) ==
    Success(to_string_or_default(schema_for("QueryMsg", QueryMsg), sd.out))

\* faulty variant: the schema of the other grammar
list_tx_entry_points_result_query_schema(sd) ==
    Success(to_string_or_default(schema_for("QueryMsg", QueryMsg), sd.out))

list_tx_entry_points_result(sd) ==
    Success(to_string_or_default(schema_for("ExecuteMsg", ExecuteMsg), sd.out))

build_query_msg_result(a, sd) ==
    LET deserialized == from_str(a.msg, QueryMsg)
    IN  IF ~deserialized.ok THEN Panicked
        ELSE LET query_req ==
                     WasmQuerySmart(a.contract_addr,
                                    to_json_binary(QueryMsg, deserialized.val, sd.bin))
             IN  IF ~sd.env THEN Error(Str(QUERY_WRAP_ERROR))
                 ELSE Success(to_string_or_default(
                                  ValidatedQuery(a.msg, JsonText(query_req)), sd.out))

\* faulty variant: no is_err() check; the failed serialization is defaulted
build_execute_msg_result_unchecked(a, sd) ==
    LET fs == funds(a.payment, a.payment_denom)
        deserialized == from_str(a.msg, ExecuteMsg)
    IN  IF ~deserialized.ok THEN Panicked
        ELSE LET cosmos_msg ==
                     WasmMsgExecute(a.contract_addr,
                                    to_json_binary(ExecuteMsg, deserialized.val, sd.bin),
                                    fs)
             IN  Success(to_string_or_default(
                             ValidatedExecute(a.msg,
                                              to_string_or_default(cosmos_msg, sd.env)),
                             sd.out))

\* faulty variant: the payment is read from a buffer shared by all calls
build_execute_msg_result_shared_payment(a, sd) ==
    LET fs == funds(inflight[1].args.payment, a.payment_denom)
        deserialized == from_str(a.msg, ExecuteMsg)
    IN  IF ~deserialized.ok THEN Panicked
        ELSE LET cosmos_msg ==
                     WasmMsgExecute(a.contract_addr,
                                    to_json_binary(ExecuteMsg, deserialized.val, sd.bin),
                                    fs)
             IN  IF ~sd.env THEN Error(Str(EXECUTE_WRAP_ERROR))
                 ELSE Success(to_string_or_default(
                                  ValidatedExecute(a.msg, JsonText(cosmos_msg)), sd.out))

build_execute_msg_result(a, sd) ==
    LET fs == funds(a.payment, a.payment_denom)
        deserialized == from_str(a.msg, ExecuteMsg)
    IN  IF ~deserialized.ok THEN Panicked
        ELSE LET cosmos_msg ==
                     WasmMsgExecute(a.contract_addr,
                                    to_json_binary(ExecuteMsg, deserialized.val, sd.bin),
                                    fs)
             IN  IF ~sd.env THEN Error(Str(EXECUTE_WRAP_ERROR))
                 ELSE Success(to_string_or_default(
                                  ValidatedExecute(a.msg, JsonText(cosmos_msg)), sd.out))

-----------------------------------------------------------------------------
(* Tool calls *)

Args(addr, msg, payment, payment_denom) ==
    [contract_addr |-> addr, msg |-> msg, payment |-> payment,
     payment_denom |-> payment_denom]

NoArgs == Args("", <<>>, None, NoneStr)

Call(op, args) == [op |-> op, args |-> args]

Idle == [pc |-> "idle", op |-> "", args |-> NoArgs, serde |-> SerdeOk, res |-> NoResult]

\* a finished handler run: it returned a result, or it unwound
Finish(slot, sd, res) ==
    [slot EXCEPT !.pc = IF res.kind = "panic" THEN "panicked" ELSE "returned",
                 !.serde = sd, !.res = res]

Init ==
    /\ contracts = CwMcp_new
    /\ inflight = [i \in Slots |-> Idle]

\* the tool box dispatches a call to its handler
Invoke(i, calls) ==
    /\ inflight[i].pc = "idle"
    /\ \E c \in calls :
          inflight' = [inflight EXCEPT ![i] =
                          [Idle EXCEPT !.pc = "called", !.op = c.op, !.args = c.args]]
    /\ UNCHANGED contracts

Called(i, op) == inflight[i].pc = "called" /\ inflight[i].op = op

list_contract_deployments(i, sd) ==
    /\ Called(i, "list_contract_deployments")
    /\ inflight' = [inflight EXCEPT ![i] =
                       Finish(@, sd, list_contract_deployments_result(contracts, sd))]
    /\ UNCHANGED contracts

list_query_entry_points(i, sd) ==
    /\ Called(i, "list_query_entry_points")
    /\ inflight' = [inflight EXCEPT ![i] =
                       Finish(@, sd, list_query_entry_points_result(sd))]
    /\ UNCHANGED contracts

list_tx_entry_points(i, sd) ==
    /\ Called(i, "list_tx_entry_points")
    /\ inflight' = [inflight EXCEPT ![i] =
                       Finish(@, sd, list_tx_entry_points_result(sd))]
    /\ UNCHANGED contracts

build_query_msg(i, sd) ==
    /\ Called(i, "build_query_msg")
    /\ inflight' = [inflight EXCEPT ![i] =
                       Finish(@, sd, build_query_msg_result(@.args, sd))]
    /\ UNCHANGED contracts

build_execute_msg(i, sd) ==
    /\ Called(i, "build_execute_msg")
    /\ inflight' = [inflight EXCEPT ![i] =
                       Finish(@, sd, build_execute_msg_result(@.args, sd))]
    /\ UNCHANGED contracts

\* the outcome has been delivered to the caller; the call is over
Respond(i) ==
    /\ inflight[i].pc \in {"returned", "panicked"}
    /\ inflight' = [inflight EXCEPT ![i] = Idle]
    /\ UNCHANGED contracts

-----------------------------------------------------------------------------
(* Inputs *)

\* {"token_info":{}}
QTokenInfo == <<"{", "\"token_info\"", ":", "{", "}", "}">>

\* { "token_info": {} }
QTokenInfoSpaced == <<"{", WS, "\"token_info\"", ":", WS, "{", "}", WS, "}">>

\* {"balance":{"address":"archway1holder"}}
QBalance ==
    <<"{", "\"balance\"", ":", "{", "\"address\"", ":", "\"archway1holder\"", "}", "}">>

\* {"balance":{}}: a required field is missing
QBalanceNoField == <<"{", "\"balance\"", ":", "{", "}", "}">>

\* {"deposit":{}}
EDeposit == <<"{", "\"deposit\"", ":", "{", "}", "}">>

\* {"deposit" : { } }
EDepositSpaced == <<"{", "\"deposit\"", WS, ":", WS, "{", WS, "}", WS, "}">>

\* {"withdraw":{"amount":"5"}}
EWithdraw == <<"{", "\"withdraw\"", ":", "{", "\"amount\"", ":", "\"5\"", "}", "}">>

\* {not json
NotJson == <<"{", "not", WS, "json">>

\* {"bogus":{}}: no variant has this tag
UnknownVariant == <<"{", "\"bogus\"", ":", "{", "}", "}">>

EmptyPayload == <<>>

Pay100 == <<"1", "0", "0">>

PayNotANumber == <<"n", "o", "t", "-", "a", "-", "n", "u", "m", "b", "e", "r">>

\* 2^128 = 340282366920938463463374607431768211456
PayTwoPow128 == [U128MaxDigits EXCEPT ![Len(U128MaxDigits)] = "6"]

Payments ==
    { None, Some(Pay100), Some(<<"0">>), Some(<<"0", "0", "7">>), Some(<<"+", "5">>),
      Some(<<>>), Some(<<"-", "5">>), Some(<<"1", "e", "2">>), Some(PayNotANumber),
      Some(U128MaxDigits), Some(PayTwoPow128), Some(<<"0">> \o PayTwoPow128) }

Denoms == {NoneStr, SomeStr("uarch"), SomeStr("")}

Addrs == {CONTRACT_MAINNET, CONTRACT_TESTNET}

QueryPayloads ==
    { QTokenInfo, QTokenInfoSpaced, QBalance, QBalanceNoField, NotJson,
      UnknownVariant, EDeposit, EmptyPayload }

ExecutePayloads ==
    { EDeposit, EDepositSpaced, EWithdraw, NotJson, UnknownVariant, QTokenInfo,
      EmptyPayload }

ListCalls ==
    { Call(op, NoArgs) : op \in { "list_contract_deployments",
                                  "list_query_entry_points",
                                  "list_tx_entry_points" } }

BuildCalls(addrs, qs, es, ps, ds) ==
    { Call("build_query_msg", Args(a, q, None, NoneStr)) : a \in addrs, q \in qs }
        \cup
    { Call("build_execute_msg", Args(a, e, p, d)) :
          a \in addrs, e \in es, p \in ps, d \in ds }

\* every call of the input domain
AllCalls == ListCalls \cup BuildCalls(Addrs, QueryPayloads, ExecutePayloads, Payments, Denoms)

\* the calls that are made concurrently
SomeCalls ==
    ListCalls \cup
    BuildCalls({CONTRACT_MAINNET}, {QTokenInfoSpaced, NotJson}, {EDeposit, NotJson},
               {None, Some(Pay100), Some(PayNotANumber)}, {NoneStr, SomeStr("uarch")})

-----------------------------------------------------------------------------
(* Specifications *)

Handle(i, sd) ==
    \/ list_contract_deployments(i, sd)
    \/ list_query_entry_points(i, sd)
    \/ list_tx_entry_points(i, sd)
    \/ build_query_msg(i, sd)
    \/ build_execute_msg(i, sd)

\* Concurrent calls; the encoder and the serializers succeed, as they do on
\* the strings, binaries and coins of these messages.
Next ==
    \E i \in Slots :
        \/ Invoke(i, SomeCalls)
        \/ Handle(i, SerdeOk)
        \/ Respond(i)

Spec == Init /\ [][Next]_vars

\* One call at a time, over the whole input domain.
NextCall ==
    \/ Invoke(1, AllCalls)
    \/ Handle(1, SerdeOk)
    \/ Respond(1)

SpecCall == Init /\ [][NextCall]_vars

\* One call at a time; each encoder/serializer call of a handler may return Err.
NextFault ==
    \/ Invoke(1, AllCalls)
    \/ \E b, e, o \in BOOLEAN : Handle(1, Serde(b, e, o))
    \/ Respond(1)

SpecFault == Init /\ [][NextFault]_vars

-----------------------------------------------------------------------------
(* Vocabulary of the properties *)

Finished(i, op) ==
    /\ inflight[i].pc \in {"returned", "panicked"}
    /\ inflight[i].op = op

Returned(i, op) == inflight[i].pc = "returned" /\ inflight[i].op = op

WellFormed(raw, grammar) == from_str(raw, grammar).ok

GrammarOf(op) == IF op = "build_query_msg" THEN QueryMsg ELSE ExecuteMsg

BuildOps == {"build_query_msg", "build_execute_msg"}

ListOps == {"list_contract_deployments", "list_query_entry_points", "list_tx_entry_points"}

\* the envelope carried by a success result, parsed back from its text
QueryEnvelopeOf(res) == res.text.json.query_request.json.wasm.smart

ExecuteEnvelopeOf(res) == res.text.json.cosmos_msg.json.wasm.execute

EnvelopeOf(op, res) ==
    IF op = "build_query_msg" THEN QueryEnvelopeOf(res) ELSE ExecuteEnvelopeOf(res)

\* a decimal numeral, with an optional plus sign: the string denotes a
\* non-negative integer
Unsigned(s) == IF Len(s) > 0 /\ Head(s) = "+" THEN Tail(s) ELSE s

DenotesNat(s) == Len(Unsigned(s)) > 0 /\ AllDigits(Unsigned(s))

\* the integer a numeral denotes, as canonical digits
NatValue(s) == StripZeros(Unsigned(s))

\* a <= 2^128 - 1
FitsU128(a) == LeqDigits(a, U128MaxDigits)

BothSupplied(a) == a.payment.some /\ a.payment_denom.some

-----------------------------------------------------------------------------
(* Properties *)

\* C1: a build operation whose payload is not a well-formed instance of its
\* grammar (malformed JSON, or no matching variant) ends by returning an
\* error result: it never panics and never returns a success result.
\* (SpecCall)
C1_MalformedPayloadReturnsError ==
    \A i \in Slots : \A op \in BuildOps :
        (Finished(i, op) /\ ~WellFormed(inflight[i].args.msg, GrammarOf(op)))
            => (inflight[i].pc = "returned" /\ inflight[i].res.kind = "error")

\* C2: build_query_msg(addr, m) with a well-formed m returns a success result
\* whose query_msg is the raw payload unchanged and whose query_request holds
\* contract_addr = addr and msg = the canonical encoding of the parsed m: the
\* whitespace-free token sequence that parses back to the same message.
\* (SpecCall)
C2_BuildQueryEnvelope ==
    \A i \in Slots :
        LET a == inflight[i].args
            r == inflight[i].res
        IN  (Finished(i, "build_query_msg") /\ WellFormed(a.msg, QueryMsg))
                => /\ inflight[i].pc = "returned"
                   /\ r.kind = "success"
                   /\ r.text.json.query_msg = a.msg
                   /\ QueryEnvelopeOf(r).contract_addr = a.contract_addr
                   /\ LET m == from_str(a.msg, QueryMsg).val
                          c == QueryEnvelopeOf(r).msg.base64
                      IN  /\ c = Encode(QueryMsg, m)
                          /\ c = StripWs(a.msg)
                          /\ from_str(c, QueryMsg) = ParseOk(m)

\* a well-formed payload that is not in canonical form, sent to the testnet
\* address, has been wrapped
C2_Witness ==
    \E i \in Slots :
        /\ Returned(i, "build_query_msg")
        /\ inflight[i].args.msg = QTokenInfoSpaced
        /\ inflight[i].args.contract_addr = CONTRACT_TESTNET
        /\ inflight[i].res.kind = "success"

\* C3 as stated: with a well-formed payload, both payment and payment_denom
\* supplied, and payment a numeral denoting the non-negative integer a, the
\* envelope's funds are exactly one entry: amount a, denom payment_denom.
\* (SpecCall)
C3_FundsOneEntryAnyNat ==
    \A i \in Slots :
        LET a == inflight[i].args
            r == inflight[i].res
        IN  ( /\ Finished(i, "build_execute_msg")
              /\ WellFormed(a.msg, ExecuteMsg)
              /\ BothSupplied(a)
              /\ DenotesNat(a.payment.val) )
                => /\ r.kind = "success"
                   /\ ExecuteEnvelopeOf(r).funds
                          = << Coin(a.payment_denom.val, NatValue(a.payment.val)) >>

\* C3 amended: the same, for an integer a that fits an unsigned 128-bit
\* integer (a <= 2^128 - 1).  (SpecCall)
C3_FundsOneEntryU128 ==
    \A i \in Slots :
        LET a == inflight[i].args
            r == inflight[i].res
        IN  ( /\ Finished(i, "build_execute_msg")
              /\ WellFormed(a.msg, ExecuteMsg)
              /\ BothSupplied(a)
              /\ DenotesNat(a.payment.val)
              /\ FitsU128(NatValue(a.payment.val)) )
                => /\ r.kind = "success"
                   /\ ExecuteEnvelopeOf(r).funds
                          = << Coin(a.payment_denom.val, NatValue(a.payment.val)) >>

\* payment "100" with denom "uarch" has been wrapped: one entry of 100 uarch
C3_Witness ==
    \E i \in Slots :
        /\ Returned(i, "build_execute_msg")
        /\ inflight[i].args.payment = Some(Pay100)
        /\ inflight[i].args.payment_denom = SomeStr("uarch")
        /\ inflight[i].res.kind = "success"
        /\ ExecuteEnvelopeOf(inflight[i].res).funds = << Coin("uarch", Pay100) >>

\* C4: with a well-formed payload, when payment is absent or payment_denom is
\* absent, build_execute_msg returns a success result whose envelope has an
\* empty funds sequence.  (SpecCall)
C4_PartialPaymentNoFunds ==
    \A i \in Slots :
        LET a == inflight[i].args
            r == inflight[i].res
        IN  ( /\ Finished(i, "build_execute_msg")
              /\ WellFormed(a.msg, ExecuteMsg)
              /\ ~BothSupplied(a) )
                => /\ inflight[i].pc = "returned"
                   /\ r.kind = "success"
                   /\ ExecuteEnvelopeOf(r).funds = <<>>

\* only the amount was supplied, and the call returned
C4_Witness ==
    \E i \in Slots :
        /\ Returned(i, "build_execute_msg")
        /\ inflight[i].args.payment = Some(Pay100)
        /\ ~inflight[i].args.payment_denom.some
        /\ inflight[i].res.kind = "success"

\* C5: with a well-formed payload and both payment and payment_denom
\* supplied, when payment does not denote a non-negative integer the call
\* does not crash and the funds of the produced envelope are empty: no
\* entry at all, not an entry with amount zero.  (SpecCall)
C5_UnparsablePaymentNoFunds ==
    \A i \in Slots :
        LET a == inflight[i].args
            r == inflight[i].res
        IN  ( /\ Finished(i, "build_execute_msg")
              /\ WellFormed(a.msg, ExecuteMsg)
              /\ BothSupplied(a)
              /\ ~DenotesNat(a.payment.val) )
                => /\ inflight[i].pc = "returned"
                   /\ r.kind = "success" => ExecuteEnvelopeOf(r).funds = <<>>

\* a registry as the data model requires it: one deployment per network,
\* chain id and contract address not empty
RegistryOk(reg) ==
    /\ Len(reg) = 2
    /\ \A n \in Networks : Cardinality({k \in 1..Len(reg) : reg[k].network = n}) = 1
    /\ \A k \in 1..Len(reg) : reg[k].chain_id # "" /\ reg[k].contract_address # ""

\* C6: in every reachable state the registry is the one constructed at
\* start, and every list_contract_deployments that has run returned exactly
\* two deployments, one for Mainnet and one for Testnet, with chain id and
\* contract address not empty.  (Spec)
C6_RegistryFixed ==
    /\ contracts = CwMcp_new
    /\ RegistryOk(contracts)
    /\ \A i \in Slots :
          Finished(i, "list_contract_deployments")
              => /\ inflight[i].pc = "returned"
                 /\ inflight[i].res.kind = "success"
                 /\ RegistryOk(inflight[i].res.text.json)

\* the registry was listed while another call had failed
C6_Witness ==
    \E i, j \in Slots :
        /\ Returned(i, "list_contract_deployments")
        /\ inflight[j].pc = "panicked"

\* C7: when the outer envelope cannot be serialized, build_query_msg returns
\* the error result "Error wrapping QueryMsg as QueryRequest" and
\* build_execute_msg the error result "Error wrapping ExecuteMsg as
\* CosmosMsg"; no success result, no bundle.  (SpecFault)
C7_EnvelopeSerializationError ==
    \A i \in Slots : \A op \in BuildOps :
        ( /\ Finished(i, op)
          /\ WellFormed(inflight[i].args.msg, GrammarOf(op))
          /\ ~inflight[i].serde.env )
            => /\ inflight[i].pc = "returned"
               /\ inflight[i].res =
                      [kind |-> "error",
                       text |-> [str |-> IF op = "build_query_msg"
                                         THEN "Error wrapping QueryMsg as QueryRequest"
                                         ELSE "Error wrapping ExecuteMsg as CosmosMsg"]]

\* a build operation has hit an envelope serialization failure
C7_Witness ==
    \E i \in Slots : \E op \in BuildOps :
        /\ Returned(i, op)
        /\ ~inflight[i].serde.env
        /\ inflight[i].res.kind = "error"

\* C8: the three listing operations always return a success result; its text
\* is the JSON document of the registry or of the schema when serialization
\* succeeds, and the empty string when it fails.  (SpecFault)
C8_ListingsAlwaysSucceed ==
    \A i \in Slots : \A op \in ListOps :
        Finished(i, op)
            => /\ inflight[i].pc = "returned"
               /\ inflight[i].res.kind = "success"
               /\ inflight[i].res.text =
                      IF ~inflight[i].serde.out THEN [str |-> ""]
                      ELSE [json |->
                              CASE op = "list_contract_deployments" -> contracts
                                [] op = "list_query_entry_points" ->
                                       [title |-> "QueryMsg", oneOf |-> QueryMsg]
                                [] op = "list_tx_entry_points" ->
                                       [title |-> "ExecuteMsg", oneOf |-> ExecuteMsg]]

\* a listing has returned the empty string after a serialization failure
C8_Witness ==
    \E i \in Slots :
        /\ Returned(i, "list_tx_entry_points")
        /\ ~inflight[i].serde.out
        /\ inflight[i].res = Success(EmptyText)

\* C9: two calls of the same operation with identical arguments have the
\* same outcome, whatever other calls ran before them or are in flight with
\* them.  (Spec)
C9_CallsDoNotInteract ==
    \A i, j \in Slots :
        ( /\ inflight[i].pc \in {"returned", "panicked"}
          /\ inflight[j].pc \in {"returned", "panicked"}
          /\ inflight[i].op = inflight[j].op
          /\ inflight[i].args = inflight[j].args )
            => /\ inflight[i].pc = inflight[j].pc
               /\ inflight[i].res = inflight[j].res

\* two calls with the same arguments have both returned
C9_Witness ==
    \E i, j \in Slots :
        /\ i # j
        /\ Returned(i, "build_execute_msg") /\ Returned(j, "build_execute_msg")
        /\ inflight[i].args = inflight[j].args
        /\ inflight[i].args.payment = Some(Pay100)

\* C10: a build operation never returns a success result whose envelope
\* carries an empty msg for a payload that parsed: when the binary encoding
\* of the validated payload fails, the result is an error result.
\* (SpecFault)
C10_EncodeFailureIsError ==
    \A i \in Slots : \A op \in BuildOps :
        LET r == inflight[i].res
        IN  ( /\ Finished(i, op)
              /\ WellFormed(inflight[i].args.msg, GrammarOf(op))
              /\ r.kind = "success"
              /\ r.text # EmptyText )
                => EnvelopeOf(op, r).msg # BinaryDefault

=============================================================================
